---- MODULE Spec2Model ----
(***************************************************************************)
(* Credit-backed fuel transaction engine of smart-fuel-financing.          *)
(*                                                                         *)
(* The persistent tables (CreditLine, Transaction, QrCode, Loan,           *)
(* LoanRepayment) are sequences of rows; a row's id is its index.  Every   *)
(* HTTP request runs in its own SQLAlchemy session: the handler first      *)
(* reads rows and computes new attribute values in Python (the Begin*      *)
(* actions), and db.commit() then writes those values (the Commit*         *)
(* actions).  Two workers serve requests, so the read and the commit of    *)
(* two requests can interleave.  Amounts are integers (Numeric(18,2)       *)
(* values counted in the smallest unit).                                   *)
(***************************************************************************)
EXTENDS Integers, Sequences, FiniteSets, TLC

\* ------------------------------------------------------------------ bounds
Workers == {1, 2}
MaxAmount == 2
CreditLimit == MaxAmount
MaxTxn == 2
MaxNow == 1
MaxRequests == 4
MaxKey == MaxTxn
MaxQr == MaxTxn
MaxLoan == MaxTxn
MaxRepayment == MaxTxn
MaxPayment == 1

\* expiry_minutes of the QR requests, and the 30 days a new loan is given.
ExpiryMinutes == MaxNow
GracePeriod == 30

\* Request payloads carry plain floats with no validator: negative and zero
\* amounts reach the handlers.
Amounts == (0 - 1)..MaxAmount
\* The amounts authorizations are requested for.
HoldAmounts == 1..MaxAmount
Keys == 1..MaxKey

\* ------------------------------------------------------------------ helpers
None == <<>>
Some(v) == <<v>>
Val(o) == o[1]

Max(a, b) == IF a >= b THEN a ELSE b

\* The only driver of the model, its preferred bank and that bank.
TheDriver == 1
TheBank == 1
\* Another bank the driver can hold a credit line at, and the limits banks grant.
OtherBank == 2
Banks == {TheBank, OtherBank}
Limits == 1..MaxAmount

VARIABLES
    credit_lines,   \* CreditLine rows
    transactions,   \* Transaction rows
    qr_codes,       \* QrCode rows
    loans,          \* Loan rows
    repayments,     \* LoanRepayment rows
    payments,       \* Payment rows
    origin,         \* history: origin[t] = the QrCode row transaction t was created from (0: none)
    now,            \* datetime.utcnow()
    session,        \* per worker: the request in progress (rows read, values to commit)
    requests        \* history: how many requests have been accepted so far

vars == <<credit_lines, transactions, qr_codes, loans, repayments, payments, origin, now, session, requests>>

db == <<credit_lines, transactions, qr_codes, loans, repayments, payments>>

Idle == [pc |-> "idle"]

\* CreditEngineService.create_credit_line: the row as first inserted.
NewCreditLine(bank, driver, limit) ==
    [bank_id |-> bank, driver_id |-> driver, credit_limit |-> limit,
     utilized_amount |-> 0, version |-> 0]

\* query(CreditLine).filter(driver_id == d, bank_id == b).first(): row id, 0 when absent.
CreditLineOf(driver, bank) ==
    LET S == {c \in DOMAIN credit_lines :
                /\ credit_lines[c].driver_id = driver
                /\ credit_lines[c].bank_id = bank}
    IN IF S = {} THEN 0 ELSE CHOOSE c \in S : \A d \in S : c <= d

\* The driver has been granted a credit line at the preferred bank, alone or
\* after one at another bank.
Init ==
    /\ credit_lines \in
          {<<NewCreditLine(TheBank, TheDriver, CreditLimit)>>,
           <<NewCreditLine(OtherBank, TheDriver, CreditLimit),
             NewCreditLine(TheBank, TheDriver, CreditLimit)>>}
    /\ transactions = <<>>
    /\ qr_codes = <<>>
    /\ loans = <<>>
    /\ repayments = <<>>
    /\ payments = <<>>
    /\ origin = <<>>
    /\ now = 0
    /\ session = [p \in Workers |-> Idle]
    /\ requests = 0

\* ------------------------------------------------------------------ clock
Tick ==
    /\ now < MaxNow
    /\ now' = now + 1
    /\ UNCHANGED <<db, origin, session, requests>>

\* A request that gets past the handler's checks is counted; one that is
\* refused changes nothing at all.
Accept ==
    /\ requests < MaxRequests
    /\ requests' = requests + 1

\* Rows the pending units of work are going to insert.
PendingInserts(pcs) == Cardinality({p \in Workers : session[p].pc \in pcs})

\* ------------------------------------------------------------------ credit engine
\* CreditEngineService.get_available_credit(driver_id=...): the driver's own
\* (first) credit line; 0 when the driver has none.
get_available_credit(driver) ==
    LET S == {c \in DOMAIN credit_lines : credit_lines[c].driver_id = driver}
    IN IF S = {} THEN 0
       ELSE LET c == CHOOSE x \in S : \A y \in S : x <= y
            IN Max(0, credit_lines[c].credit_limit - credit_lines[c].utilized_amount)

\* CreditEngineService.check_credit_availability: is_available.
check_credit_availability(driver, requested_amount) ==
    get_available_credit(driver) >= requested_amount

\* UPDATE creditline SET utilized_amount = <the value computed from the row as
\* read>. The unit of work writes an attribute only when the handler changed it.
WriteUtilized(lines, c, read_utilized, utilized) ==
    IF utilized = read_utilized THEN lines
    ELSE [lines EXCEPT ![c] = [@ EXCEPT !.utilized_amount = utilized]]

\* UPDATE creditline SET version = <version read + 1>.
WriteVersion(lines, c, version) ==
    [lines EXCEPT ![c] = [@ EXCEPT !.version = version]]

\* ------------------------------------------------------------------ create_credit_line
\* What create_credit_line (POST /credit-lines, approve_request) does with a
\* request: it returns the line the pair already has, or inserts one.
CreateCreditLineResult(bank, driver) ==
    IF CreditLineOf(driver, bank) # 0 THEN "existing" ELSE "create"

\* create_credit_line up to db.commit(); returning the existing line changes nothing.
BeginCreateCreditLine(p, bank, limit) ==
    /\ session[p].pc = "idle"
    /\ CreateCreditLineResult(bank, TheDriver) = "create"
    /\ Accept
    /\ session' = [session EXCEPT ![p] =
          [pc |-> "create_line", row |-> NewCreditLine(bank, TheDriver, limit)]]
    /\ UNCHANGED <<db, origin, now>>

\* A constraint that lets every insert through: what uq_creditline_bank_driver
\* must be told apart from.
NoConstraint(lines, row) == TRUE

\* UniqueConstraint("bank_id", "driver_id", name="uq_creditline_bank_driver"):
\* may row be inserted into lines?
uq_creditline_bank_driver(lines, row) ==
    \A c \in DOMAIN lines :
        ~(lines[c].bank_id = row.bank_id /\ lines[c].driver_id = row.driver_id)

\* db.commit() of create_credit_line: the insert, or its rollback when the
\* unique constraint rejects the row.
CommitCreateCreditLine(p) ==
    /\ session[p].pc = "create_line"
    /\ credit_lines' = IF uq_creditline_bank_driver(credit_lines, session[p].row)
                       THEN Append(credit_lines, session[p].row)
                       ELSE credit_lines
    /\ session' = [session EXCEPT ![p] = Idle]
    /\ UNCHANGED <<transactions, qr_codes, loans, repayments, payments, origin, now, requests>>

\* ------------------------------------------------------------------ generate_qr_code
\* The QrCode row generate_qr_code inserts: not used, bound to no transaction.
NewQrCode(driver, bank, amount, expiry_minutes) ==
    [driver_id |-> driver, bank_id |-> bank, authorized_amount |-> amount,
     expires_at |-> now + expiry_minutes, is_used |-> FALSE, used_at |-> None,
     transaction_id |-> None]

\* What generate_qr_code answers for a request: the error it raises, or "ok".
GenerateQrResult(driver, amount) ==
    IF ~check_credit_availability(driver, amount) THEN "InsufficientCredit"
    ELSE IF CreditLineOf(driver, TheBank) = 0 THEN "CreditLineNotFound"
    ELSE "ok"

\* TransactionQrService.generate_qr_code(driver_id, station_id, authorized_amount, expiry_minutes)
GenerateQr(amount) ==
    /\ Len(qr_codes) < MaxQr
    /\ GenerateQrResult(TheDriver, amount) = "ok"
    /\ Accept
    /\ qr_codes' = Append(qr_codes, NewQrCode(TheDriver, TheBank, amount, ExpiryMinutes))
    /\ UNCHANGED <<credit_lines, transactions, loans, repayments, payments, origin, now, session>>

\* ------------------------------------------------------------------ scan_and_authorize
\* A QrCode lookup that leaves out the is_used filter: the lookup the token
\* properties must tell apart from the real one.
ValidQrIgnoringUse(q) ==
    /\ q \in DOMAIN qr_codes
    /\ qr_codes[q].expires_at > now

\* The QrCode lookup of scan_and_authorize: the row with this qr_id that is
\* unused and unexpired.
ValidQr(q) ==
    /\ q \in DOMAIN qr_codes
    /\ qr_codes[q].is_used = FALSE
    /\ qr_codes[q].expires_at > now

\* query(Transaction).filter(idempotency_key == key).first(): row id, 0 when absent.
TransactionByKey(key) ==
    LET S == {t \in DOMAIN transactions : transactions[t].idempotency_key = key}
    IN IF S = {} THEN 0 ELSE CHOOSE t \in S : \A u \in S : t <= u

\* The credit check made before a hold is placed.
InsufficientCredit(c, amount) ==
    credit_lines[c].utilized_amount + amount > credit_lines[c].credit_limit

\* What scan_and_authorize does with a request, decided from the rows it reads:
\* an error, "existing" (the transaction of that idempotency key is returned)
\* or "hold" (a transaction and a hold are prepared for commit).
ScanResult(q, key) ==
    IF ~ValidQr(q) THEN "InvalidOrExpiredToken"
    ELSE IF TransactionByKey(key) # 0 THEN "existing"
    ELSE IF CreditLineOf(qr_codes[q].driver_id, qr_codes[q].bank_id) = 0 THEN "CreditLineNotFound"
    ELSE IF InsufficientCredit(CreditLineOf(qr_codes[q].driver_id, qr_codes[q].bank_id),
                               qr_codes[q].authorized_amount) THEN "InsufficientCredit"
    ELSE "hold"

\* The Transaction row an authorization inserts.
NewTransaction(key, bank, driver, amount) ==
    [idempotency_key |-> key, funding_source_id |-> bank, debtor_driver_id |-> driver,
     authorized_amount |-> amount, settled_amount |-> None, status |-> "AUTHORIZED",
     settled_at |-> None]

\* scan_and_authorize up to (not including) db.commit().
BeginScan(p, q, key) ==
    /\ session[p].pc = "idle"
    /\ Len(transactions) + PendingInserts({"scan", "initiate"}) < MaxTxn
    /\ ScanResult(q, key) = "hold"
    /\ Accept
    /\ LET c == CreditLineOf(qr_codes[q].driver_id, qr_codes[q].bank_id)
           a == qr_codes[q].authorized_amount
       IN session' = [session EXCEPT ![p] =
              [pc |-> "scan", qr |-> q, key |-> key, line |-> c, amount |-> a,
               read_utilized |-> credit_lines[c].utilized_amount,
               utilized_amount |-> credit_lines[c].utilized_amount + a,
               version |-> credit_lines[c].version + 1,
               used_at |-> now]]
    /\ UNCHANGED <<db, origin, now>>

\* db.commit() of scan_and_authorize. uq_transaction_idempotency rejects a
\* second row with the same key; the whole unit of work is then rolled back.
CommitScan(p) ==
    /\ session[p].pc = "scan"
    /\ LET s == session[p] IN
        IF TransactionByKey(s.key) # 0
        THEN UNCHANGED <<db, origin>>
        ELSE /\ transactions' = Append(transactions,
                    NewTransaction(s.key, qr_codes[s.qr].bank_id, qr_codes[s.qr].driver_id, s.amount))
             /\ origin' = Append(origin, s.qr)
             /\ credit_lines' = WriteVersion(
                    WriteUtilized(credit_lines, s.line, s.read_utilized, s.utilized_amount),
                    s.line, s.version)
             /\ qr_codes' = [qr_codes EXCEPT ![s.qr] =
                    [@ EXCEPT !.is_used = TRUE, !.used_at = Some(s.used_at),
                              !.transaction_id = None]]
             /\ UNCHANGED <<loans, repayments, payments>>
    /\ session' = [session EXCEPT ![p] = Idle]
    /\ UNCHANGED <<now, requests>>

\* ------------------------------------------------------------------ initiate_transaction
\* What POST /transactions/initiate does with a request: it makes no credit check.
InitiateResult(driver, amount) ==
    IF CreditLineOf(driver, TheBank) = 0 THEN "CreditLineNotFound" ELSE "hold"

\* initiate_transaction up to db.commit().
BeginInitiate(p, amount, key) ==
    /\ session[p].pc = "idle"
    /\ Len(transactions) + PendingInserts({"scan", "initiate"}) < MaxTxn
    /\ InitiateResult(TheDriver, amount) = "hold"
    /\ Accept
    /\ LET c == CreditLineOf(TheDriver, TheBank) IN
        session' = [session EXCEPT ![p] =
              [pc |-> "initiate", key |-> key, line |-> c, amount |-> amount,
               read_utilized |-> credit_lines[c].utilized_amount,
               utilized_amount |-> credit_lines[c].utilized_amount + amount,
               version |-> credit_lines[c].version + 1]]
    /\ UNCHANGED <<db, origin, now>>

\* db.commit() of initiate_transaction.
CommitInitiate(p) ==
    /\ session[p].pc = "initiate"
    /\ LET s == session[p] IN
        IF TransactionByKey(s.key) # 0
        THEN UNCHANGED <<db, origin>>
        ELSE /\ transactions' = Append(transactions,
                    NewTransaction(s.key, TheBank, TheDriver, s.amount))
             /\ origin' = Append(origin, 0)
             /\ credit_lines' = WriteVersion(
                    WriteUtilized(credit_lines, s.line, s.read_utilized, s.utilized_amount),
                    s.line, s.version)
             /\ UNCHANGED <<qr_codes, loans, repayments, payments>>
    /\ session' = [session EXCEPT ![p] = Idle]
    /\ UNCHANGED <<now, requests>>

\* ------------------------------------------------------------------ settle_transaction
\* A settle_transaction that leaves out the status test: the handler the
\* settlement properties must tell apart from the real one.
SettleResultIgnoringStatus(t, settled_amount) ==
    IF t \notin DOMAIN transactions THEN "TransactionNotFound"
    ELSE IF settled_amount > transactions[t].authorized_amount THEN "SettledAmountExceedsAuthorized"
    ELSE IF CreditLineOf(transactions[t].debtor_driver_id, transactions[t].funding_source_id) = 0
         THEN "CreditLineNotFound"
    ELSE "settle"

\* What settle_transaction does with a request, decided from the rows it reads.
SettleResult(t, settled_amount) ==
    IF t \notin DOMAIN transactions THEN "TransactionNotFound"
    ELSE IF transactions[t].status # "AUTHORIZED" THEN "AlreadySettled"
    ELSE IF settled_amount > transactions[t].authorized_amount THEN "SettledAmountExceedsAuthorized"
    ELSE IF CreditLineOf(transactions[t].debtor_driver_id, transactions[t].funding_source_id) = 0
         THEN "CreditLineNotFound"
    ELSE "settle"

\* credit_line.utilized_amount = max(0.0, utilized_amount - amount)
Release(utilized, amount) == Max(0, utilized - amount)

\* settle_transaction up to db.commit(). rollup: the endpoint goes on to
\* create_loan_from_transaction (/transactions/{id}/settle, /transactions/complete,
\* /merchants/confirm-fuel) or does not (/stations/confirm-fuel).
BeginSettle(p, t, settled_amount, rollup) ==
    /\ session[p].pc = "idle"
    /\ rollup => Len(loans) + PendingInserts({"settle", "rollup_begin", "rollup"}) < MaxLoan
    /\ SettleResult(t, settled_amount) = "settle"
    /\ Accept
    /\ LET c == CreditLineOf(transactions[t].debtor_driver_id,
                             transactions[t].funding_source_id)
       IN session' = [session EXCEPT ![p] =
              [pc |-> "settle", txn |-> t, settled_amount |-> settled_amount,
               line |-> c, read_utilized |-> credit_lines[c].utilized_amount,
               utilized_amount |->
                   Release(credit_lines[c].utilized_amount,
                           transactions[t].authorized_amount - settled_amount),
               settled_at |-> now, rollup |-> rollup]]
    /\ UNCHANGED <<db, origin, now>>

\* The endpoints' test before the roll-up:
\* transaction.status == "SETTLED" and transaction.settled_amount
RollsUp(status, settled_amount) == status = "SETTLED" /\ settled_amount # 0

\* db.commit() of settle_transaction; the endpoint then answers, or goes on to the roll-up.
CommitSettle(p) ==
    /\ session[p].pc = "settle"
    /\ LET s == session[p] IN
        /\ credit_lines' = WriteUtilized(credit_lines, s.line, s.read_utilized, s.utilized_amount)
        /\ transactions' = [transactions EXCEPT ![s.txn] =
              [@ EXCEPT !.settled_amount = Some(s.settled_amount),
                        !.status = "SETTLED",
                        !.settled_at = Some(s.settled_at)]]
        /\ session' = [session EXCEPT ![p] =
              IF s.rollup /\ RollsUp("SETTLED", s.settled_amount)
              THEN [pc |-> "rollup_begin", txn |-> s.txn,
                    settled_amount |-> s.settled_amount, line |-> s.line]
              ELSE Idle]
    /\ UNCHANGED <<qr_codes, loans, repayments, payments, origin, now, requests>>

\* ------------------------------------------------------------------ create_loan_from_transaction
\* query(Loan).filter(credit_line_id == c, status == ACTIVE).first(): row id, 0 when absent.
ActiveLoanOf(c) ==
    LET S == {l \in DOMAIN loans : loans[l].credit_line_id = c /\ loans[l].status = "ACTIVE"}
    IN IF S = {} THEN 0 ELSE CHOOSE l \in S : \A m \in S : l <= m

\* The Loan row a roll-up inserts.
NewLoan(c, driver, amount) ==
    [credit_line_id |-> c, driver_id |-> driver, principal_amount |-> amount,
     outstanding_balance |-> amount, interest_rate |-> 0, status |-> "ACTIVE",
     due_date |-> now + GracePeriod, paid_off_at |-> None]

\* What create_loan_from_transaction does with a request, decided from the rows
\* it reads: `not transaction or not transaction.settled_amount` refuses an
\* unknown transaction, an unsettled one (settled_amount None) and one settled
\* for 0; the status is not read.
RollupResult(t, c) ==
    IF t \notin DOMAIN transactions THEN "TransactionNotSettled"
    ELSE IF transactions[t].settled_amount = None THEN "TransactionNotSettled"
    ELSE IF Val(transactions[t].settled_amount) = 0 THEN "TransactionNotSettled"
    ELSE IF c \notin DOMAIN credit_lines THEN "CreditLineNotFound"
    ELSE "rollup"

\* create_loan_from_transaction up to db.commit(), called by the settle endpoint
\* with the transaction it has just settled; a ValueError ends the request (the
\* endpoint catches it).
BeginRollup(p) ==
    /\ session[p].pc = "rollup_begin"
    /\ LET s == session[p]
           l == ActiveLoanOf(s.line)
       IN session' = [session EXCEPT ![p] =
              IF RollupResult(s.txn, s.line) # "rollup" THEN Idle
              ELSE IF l # 0
              THEN [pc |-> "rollup", txn |-> s.txn, settled_amount |-> s.settled_amount, loan |-> l,
                    principal_amount |-> loans[l].principal_amount + s.settled_amount,
                    outstanding_balance |-> loans[l].outstanding_balance + s.settled_amount]
              ELSE [pc |-> "rollup", txn |-> s.txn, settled_amount |-> s.settled_amount, loan |-> 0,
                    row |-> NewLoan(s.line, transactions[s.txn].debtor_driver_id,
                                    s.settled_amount)]]
    /\ UNCHANGED <<db, origin, now, requests>>

\* db.commit() of create_loan_from_transaction; the settle endpoint then answers.
CommitRollup(p) ==
    /\ session[p].pc = "rollup"
    /\ LET s == session[p] IN
        loans' = IF s.loan # 0
                 THEN [loans EXCEPT ![s.loan] =
                         [@ EXCEPT !.principal_amount = s.principal_amount,
                                   !.outstanding_balance = s.outstanding_balance]]
                 ELSE Append(loans, s.row)
    /\ session' = [session EXCEPT ![p] = Idle]
    /\ UNCHANGED <<credit_lines, transactions, qr_codes, repayments, payments, origin, now, requests>>

\* create_loan_from_transaction raises (a database error at its commit, an
\* attribute the row does not have): nothing of it is written, and the settle
\* endpoint catches the exception and goes on to answer.
FailRollup(p) ==
    /\ session[p].pc \in {"rollup_begin", "rollup"}
    /\ session' = [session EXCEPT ![p] = Idle]
    /\ UNCHANGED <<db, origin, now, requests>>

\* What a settle endpoint with roll-up answers: the error of settle_transaction
\* as HTTP 400; otherwise the settled transaction, whether or not
\* create_loan_from_transaction raised (except Exception: pass).
SettleEndpointAnswer(settle_result, rollup_raised) ==
    IF settle_result # "settle" THEN settle_result ELSE "success"

\* ------------------------------------------------------------------ record_repayment
\* What record_repayment does with a request, decided from the rows it reads.
RepayResult(l, amount) ==
    IF l \notin DOMAIN loans THEN "LoanNotFound"
    ELSE IF loans[l].outstanding_balance < amount THEN "RepaymentExceedsBalance"
    ELSE "repay"

\* The loan status record_repayment sets for the new balance (None: status not set).
RepaidStatus(balance, due_date, at) ==
    IF due_date < at /\ balance > 0 THEN Some("OVERDUE")
    ELSE IF balance <= 0 THEN Some("PAID_OFF")
    ELSE None

\* The unit of work record_repayment prepares: the LoanRepayment to insert and
\* the new values of the loan and of its credit line (payment: the Payment row
\* the same session is completing, 0 when there is none).
RepaymentWork(pc, l, amount, payment) ==
    LET c == loans[l].credit_line_id
        balance == loans[l].outstanding_balance - amount
    IN [pc |-> pc, loan |-> l, amount |-> amount,
        read_balance |-> loans[l].outstanding_balance,
        outstanding_balance |-> balance,
        status |-> RepaidStatus(balance, loans[l].due_date, now),
        paid_off_at |-> IF balance <= 0 THEN Some(now) ELSE None,
        line |-> c, read_utilized |-> credit_lines[c].utilized_amount,
        utilized_amount |-> Release(credit_lines[c].utilized_amount, amount),
        payment |-> payment]

\* record_repayment up to db.commit().
BeginRepay(p, l, amount) ==
    /\ session[p].pc = "idle"
    /\ Len(repayments) + PendingInserts({"repay", "payment", "pay_repay"}) < MaxRepayment
    /\ RepayResult(l, amount) = "repay"
    /\ Accept
    /\ session' = [session EXCEPT ![p] = RepaymentWork("repay", l, amount, 0)]
    /\ UNCHANGED <<db, origin, now>>

\* What the db.commit() of record_repayment writes for the unit of work s.
RepaymentWrites(s) ==
    /\ repayments' = Append(repayments, [loan_id |-> s.loan, amount |-> s.amount])
    /\ loans' = [loans EXCEPT ![s.loan] =
          [@ EXCEPT !.outstanding_balance =
                        IF s.outstanding_balance = s.read_balance THEN @
                        ELSE s.outstanding_balance,
                    !.status = IF s.status = None THEN @ ELSE Val(s.status),
                    !.paid_off_at = IF s.paid_off_at = None THEN @ ELSE s.paid_off_at]]
    /\ credit_lines' = WriteUtilized(credit_lines, s.line, s.read_utilized, s.utilized_amount)

\* db.commit() of record_repayment.
CommitRepay(p) ==
    /\ session[p].pc = "repay"
    /\ RepaymentWrites(session[p])
    /\ session' = [session EXCEPT ![p] = Idle]
    /\ UNCHANGED <<transactions, qr_codes, payments, origin, now, requests>>

\* ------------------------------------------------------------------ auto_repay
\* The amount POST /bank/auto-repay repays: the whole balance when the payload
\* carries none (or 0), and never more than the balance.
AutoRepayAmount(l, amount) ==
    LET a == IF amount = 0 THEN loans[l].outstanding_balance ELSE amount
    IN IF a > loans[l].outstanding_balance THEN loans[l].outstanding_balance ELSE a

\* What auto_repay does with a request.
AutoRepayResult(l, amount) ==
    IF l \notin DOMAIN loans THEN "LoanNotFound"
    ELSE RepayResult(l, AutoRepayAmount(l, amount))

\* auto_repay up to the db.commit() of record_repayment.
BeginAutoRepay(p, l, amount) ==
    /\ l \in DOMAIN loans
    /\ BeginRepay(p, l, AutoRepayAmount(l, amount))

\* ------------------------------------------------------------------ payments
\* The Payment row initiate_payment inserts.
NewPayment(l, amount) ==
    [loan_id |-> l, amount |-> amount, status |-> "PENDING", external_payment_id |-> None]

\* PaymentService.initiate_payment up to its call of complete_payment: the
\* PENDING Payment is inserted and committed (loan_id is a foreign key: the
\* loan exists).
InitiatePayment(p, l, amount) ==
    /\ session[p].pc = "idle"
    /\ l \in DOMAIN loans
    /\ Len(payments) < MaxPayment
    /\ Len(repayments) + PendingInserts({"repay", "payment", "pay_repay"}) < MaxRepayment
    /\ Accept
    /\ payments' = Append(payments, NewPayment(l, amount))
    /\ session' = [session EXCEPT ![p] = [pc |-> "payment", payment |-> Len(payments) + 1]]
    /\ UNCHANGED <<credit_lines, transactions, qr_codes, loans, repayments, origin, now>>

\* complete_payment up to the db.commit() of record_repayment: the payment is
\* set COMPLETED in the session and record_repayment runs. When it raises, the
\* request ends with the error and nothing of the session is written.
BeginCompletePayment(p) ==
    /\ session[p].pc = "payment"
    /\ LET n == session[p].payment
           l == payments[n].loan_id
           a == payments[n].amount
       IN session' = [session EXCEPT ![p] =
              IF RepayResult(l, a) = "repay"
              THEN RepaymentWork("pay_repay", l, a, n)
              ELSE Idle]
    /\ UNCHANGED <<db, origin, now, requests>>

\* The db.commit() of record_repayment in the session of complete_payment: it
\* writes the repayment and the COMPLETED payment together.
CommitPayment(p) ==
    /\ session[p].pc = "pay_repay"
    /\ RepaymentWrites(session[p])
    /\ payments' = [payments EXCEPT ![session[p].payment] =
          [@ EXCEPT !.status = "COMPLETED",
                    !.external_payment_id = Some(session[p].payment)]]
    /\ session' = [session EXCEPT ![p] = Idle]
    /\ UNCHANGED <<transactions, qr_codes, origin, now, requests>>

\* What reconcile_payment does with a webhook that reports COMPLETED for the
\* external id "pay-<n>": the payment is looked up by that id and handed to
\* complete_payment, whose record_repayment decides.
ReconcileResult(n) ==
    IF n \notin DOMAIN payments THEN "PaymentNotFound"
    ELSE IF payments[n].external_payment_id # Some(n) THEN "PaymentNotFound"
    ELSE RepayResult(payments[n].loan_id, payments[n].amount)

\* reconcile_payment(external id of payment n, status COMPLETED) up to the
\* db.commit() of record_repayment; CommitPayment is its commit.
BeginReconcile(p, n) ==
    /\ session[p].pc = "idle"
    /\ Len(repayments) + PendingInserts({"repay", "payment", "pay_repay"}) < MaxRepayment
    /\ ReconcileResult(n) = "repay"
    /\ Accept
    /\ session' = [session EXCEPT ![p] =
          RepaymentWork("pay_repay", payments[n].loan_id, payments[n].amount, n)]
    /\ UNCHANGED <<db, origin, now>>

\* ------------------------------------------------------------------ specification
Next ==
    \/ Tick
    \/ \E p \in Workers, b \in Banks, l \in Limits : BeginCreateCreditLine(p, b, l)
    \/ \E p \in Workers : CommitCreateCreditLine(p)
    \/ \E a \in HoldAmounts : GenerateQr(a)
    \/ \E p \in Workers, q \in 1..MaxQr, k \in Keys : BeginScan(p, q, k)
    \/ \E p \in Workers : CommitScan(p)
    \/ \E p \in Workers, a \in HoldAmounts, k \in Keys : BeginInitiate(p, a, k)
    \/ \E p \in Workers : CommitInitiate(p)
    \/ \E p \in Workers, t \in 1..MaxTxn, a \in Amounts, r \in BOOLEAN : BeginSettle(p, t, a, r)
    \/ \E p \in Workers : CommitSettle(p)
    \/ \E p \in Workers : BeginRollup(p)
    \/ \E p \in Workers : CommitRollup(p)
    \/ \E p \in Workers : FailRollup(p)
    \/ \E p \in Workers, l \in 1..MaxLoan, a \in Amounts : BeginRepay(p, l, a)
    \/ \E p \in Workers, l \in 1..MaxLoan, a \in Amounts : BeginAutoRepay(p, l, a)
    \/ \E p \in Workers : CommitRepay(p)
    \/ \E p \in Workers, l \in 1..MaxLoan, a \in Amounts : InitiatePayment(p, l, a)
    \/ \E p \in Workers : BeginCompletePayment(p)
    \/ \E p \in Workers, n \in 1..MaxPayment : BeginReconcile(p, n)
    \/ \E p \in Workers : CommitPayment(p)

Spec == Init /\ [][Next]_vars

\* ------------------------------------------------------------------ properties
\* The credit line of the model's driver.
TheLine == CreditLineOf(TheDriver, TheBank)

\* Sum of authorized_amount over the first n Transaction rows.
RECURSIVE SumAuthorized(_)
SumAuthorized(n) ==
    IF n = 0 THEN 0 ELSE transactions[n].authorized_amount + SumAuthorized(n - 1)

\* C1: in every reachable state every credit line has
\* 0 <= utilized_amount <= credit_limit.
C1_UtilizedWithinLimit ==
    \A c \in DOMAIN credit_lines :
        /\ 0 <= credit_lines[c].utilized_amount
        /\ credit_lines[c].utilized_amount <= credit_lines[c].credit_limit

\* C2: authorizations racing on one credit line (scan_and_authorize of distinct
\* tokens on a line that started with nothing utilized, nothing settled yet): the
\* utilized amount is the sum of the amounts of the authorizations that
\* succeeded, and that sum never exceeds the credit limit, so of two whose
\* combined amount exceeds the remaining credit only one can have succeeded.
C2_ConcurrentHoldsAddUp ==
    (/\ transactions # <<>>
     /\ \A t \in DOMAIN transactions :
            origin[t] # 0 /\ transactions[t].status = "AUTHORIZED"
     /\ \A t, u \in DOMAIN transactions : origin[t] = origin[u] => t = u)
    => /\ credit_lines[TheLine].utilized_amount = SumAuthorized(Len(transactions))
       /\ SumAuthorized(Len(transactions)) <= credit_lines[TheLine].credit_limit

\* C3: a successful generate_qr_code for amount A leaves the new token bound
\* to a Transaction in status AUTHORIZED with authorized_amount A, and the
\* driver's utilized_amount increased by exactly A.
C3_IssueBindsAndHolds ==
    [][Len(qr_codes') = Len(qr_codes) + 1 =>
        LET q == qr_codes'[Len(qr_codes')] IN
        /\ q.transaction_id # None
        /\ Val(q.transaction_id) \in DOMAIN transactions'
        /\ transactions'[Val(q.transaction_id)].status = "AUTHORIZED"
        /\ transactions'[Val(q.transaction_id)].authorized_amount = q.authorized_amount
        /\ credit_lines'[TheLine].utilized_amount =
               credit_lines[TheLine].utilized_amount + q.authorized_amount]_vars

\* C4: the commit of a settle_transaction of an AUTHORIZED transaction with
\* authorized_amount A for 0 <= S <= A sets status SETTLED and settled_amount S
\* and decreases the credit line's utilized_amount by exactly A - S.
C4_SettleReleasesDifference ==
    [][\A p \in Workers :
        (/\ session[p].pc = "settle"
         /\ session'[p].pc # "settle"
         /\ transactions[session[p].txn].status = "AUTHORIZED"
         /\ session[p].settled_amount >= 0)
        => LET s == session[p] IN
           /\ transactions'[s.txn].status = "SETTLED"
           /\ transactions'[s.txn].settled_amount = Some(s.settled_amount)
           /\ credit_lines'[s.line].utilized_amount =
                  credit_lines[s.line].utilized_amount
                  - (transactions[s.txn].authorized_amount - s.settled_amount)]_vars

\* Every settle call on a SETTLED transaction is answered AlreadySettled.
SettledRefusesSettle ==
    \A t \in DOMAIN transactions :
        transactions[t].status = "SETTLED" =>
            \A a \in Amounts : SettleResult(t, a) = "AlreadySettled"

\* C5: a Settle call on a transaction that is already SETTLED fails with
\* AlreadySettled whatever amount it carries, and no unit of work is opened for
\* it, so utilized_amount and settled_amount stay as they are.
C5_SecondSettleRefused ==
    [][/\ SettledRefusesSettle
       /\ SettledRefusesSettle'
       /\ \A p \in Workers :
            (session[p].pc = "idle" /\ session'[p].pc = "settle")
            => transactions[session'[p].txn].status # "SETTLED"]_vars

\* A transaction has been settled for S, and a further Settle with S or with
\* another amount is answered AlreadySettled.
C5_Witness ==
    \E t \in DOMAIN transactions :
        /\ transactions[t].status = "SETTLED"
        /\ SettleResult(t, Val(transactions[t].settled_amount)) = "AlreadySettled"
        /\ \E a \in Amounts :
              /\ a # Val(transactions[t].settled_amount)
              /\ a <= transactions[t].authorized_amount
              /\ SettleResult(t, a) = "AlreadySettled"

\* C6: no authorization for an amount A with utilized_amount + A > credit_limit
\* gets past the checks of any entry point: no hold is prepared by
\* scan_and_authorize or initiate_transaction, and generate_qr_code issues no token.
C6_InsufficientCreditRefused ==
    [][/\ \A p \in Workers :
            (session[p].pc = "idle" /\ session'[p].pc \in {"scan", "initiate"})
            => ~InsufficientCredit(session'[p].line, session'[p].amount)
       /\ Len(qr_codes') = Len(qr_codes) + 1
            => ~InsufficientCredit(TheLine, qr_codes'[Len(qr_codes')].authorized_amount)]_vars

\* C7: at most one Transaction exists per idempotency_key, and the
\* authorization that created a transaction, called again with the same key,
\* is answered with that existing transaction (and so places no second hold).
C7_IdempotentAuthorization ==
    /\ \A t, u \in DOMAIN transactions :
          transactions[t].idempotency_key = transactions[u].idempotency_key => t = u
    /\ \A t \in DOMAIN transactions :
          IF origin[t] # 0
          THEN ScanResult(origin[t], transactions[t].idempotency_key) = "existing"
          ELSE InitiateResult(transactions[t].debtor_driver_id,
                              transactions[t].authorized_amount) = "existing"

\* Every scan of a used or expired token is answered invalid-or-expired.
SpentTokenRefusesScan ==
    \A q \in DOMAIN qr_codes :
        (qr_codes[q].is_used \/ qr_codes[q].expires_at <= now) =>
            \A k \in Keys : ScanResult(q, k) = "InvalidOrExpiredToken"

\* C8: a scan of a token that is used or expired fails with the
\* invalid-or-expired error whatever the state of its transaction, and no unit
\* of work is opened for it, so it changes no state.
C8_SpentTokenScanRefused ==
    [][/\ SpentTokenRefusesScan
       /\ SpentTokenRefusesScan'
       /\ \A p \in Workers :
            (session[p].pc = "idle" /\ session'[p].pc = "scan")
            => LET q == qr_codes[session'[p].qr] IN
               ~q.is_used /\ q.expires_at > now]_vars

\* A used token whose transaction is still AUTHORIZED and an expired, never
\* used, token both exist, and a scan of either is answered invalid-or-expired.
C8_Witness ==
    /\ \E t \in DOMAIN transactions :
          /\ origin[t] # 0
          /\ transactions[t].status = "AUTHORIZED"
          /\ qr_codes[origin[t]].is_used
          /\ qr_codes[origin[t]].expires_at > now
          /\ \A k \in Keys : ScanResult(origin[t], k) = "InvalidOrExpiredToken"
    /\ \E q \in DOMAIN qr_codes :
          /\ ~qr_codes[q].is_used
          /\ qr_codes[q].expires_at <= now
          /\ \A k \in Keys : ScanResult(q, k) = "InvalidOrExpiredToken"

\* C9: a token's is_used goes from false to true only while now < expires_at,
\* and at most one Transaction is ever created from one token.
C9_TokenConsumedOnce ==
    [][/\ \A q \in DOMAIN qr_codes :
            (~qr_codes[q].is_used /\ qr_codes'[q].is_used) => now < qr_codes[q].expires_at
       /\ \A t, u \in DOMAIN transactions' :
            (origin'[t] # 0 /\ origin'[t] = origin'[u]) => t = u]_vars

\* C10: round trip on the fresh credit line (limit L, nothing utilized), each
\* request made once and one after the other. After Issue(A) the available
\* credit is L - A; after Settle(S) and the roll-up it is L - S with a loan of
\* principal S; after Repay(S) the transaction is SETTLED with settled_amount S,
\* the loan is PAID_OFF with principal S and utilized_amount is back at 0.
C10_RoundTrip ==
    LET idle == \A p \in Workers : session[p].pc = "idle"
        L == credit_lines[TheLine].credit_limit
        issued == Len(qr_codes) = 1 /\ idle
        settled == /\ issued
                   /\ Len(transactions) = 1
                   /\ origin[1] = 1
                   /\ transactions[1].status = "SETTLED"
                   /\ Val(transactions[1].settled_amount) > 0
                   /\ Len(loans) = 1
    IN /\ (issued /\ requests = 1)
            => get_available_credit(TheDriver) = L - qr_codes[1].authorized_amount
       /\ (settled /\ requests = 3 /\ repayments = <<>>)
            => /\ get_available_credit(TheDriver) = L - Val(transactions[1].settled_amount)
               /\ loans[1].principal_amount = Val(transactions[1].settled_amount)
       /\ (/\ settled
           /\ requests = 4
           /\ Len(repayments) = 1
           /\ repayments[1].amount = Val(transactions[1].settled_amount))
            => /\ loans[1].status = "PAID_OFF"
               /\ loans[1].principal_amount = Val(transactions[1].settled_amount)
               /\ credit_lines[TheLine].utilized_amount = 0

\* Every repayment of a PAID_OFF loan is answered RepaymentExceedsBalance, by
\* record_repayment and by auto_repay, and the loan's balance is 0.
PaidOffRefusesRepay ==
    \A l \in DOMAIN loans :
        loans[l].status = "PAID_OFF" =>
            /\ loans[l].outstanding_balance = 0
            /\ \A a \in Amounts :
                  /\ RepayResult(l, a) = "RepaymentExceedsBalance"
                  /\ AutoRepayResult(l, a) = "RepaymentExceedsBalance"

\* C11: a repayment of a loan's full outstanding_balance leaves the loan
\* PAID_OFF with balance 0, and afterwards every repayment attempt on that loan
\* fails with RepaymentExceedsBalance and opens no unit of work, so the loan,
\* its repayments and the credit line stay as they are.
C11_PaidOffLoanIsClosed ==
    [][/\ PaidOffRefusesRepay
       /\ PaidOffRefusesRepay'
       /\ \A p \in Workers :
            /\ (session[p].pc = "idle" /\ session'[p].pc = "repay")
               => loans[session'[p].loan].status # "PAID_OFF"
            /\ (/\ session[p].pc = "repay"
                /\ session'[p].pc # "repay"
                /\ session[p].amount = loans[session[p].loan].outstanding_balance)
               => /\ loans'[session[p].loan].status = "PAID_OFF"
                  /\ loans'[session[p].loan].outstanding_balance = 0]_vars

\* C12: of two Settle calls racing on one AUTHORIZED transaction only one
\* succeeds: a settlement is committed only to a transaction that is still
\* AUTHORIZED, so the unused amount is released once.
C12_ConcurrentSettleOnce ==
    [][\A p \in Workers :
        (session[p].pc = "settle" /\ session'[p].pc # "settle")
        => transactions[session[p].txn].status = "AUTHORIZED"]_vars

\* C13: a Transaction is created AUTHORIZED, its status only changes from
\* AUTHORIZED to SETTLED, and a SETTLED transaction is never changed again
\* (status, settled_amount, authorized_amount and settled_at stay as they are).
C13_TransactionLifecycle ==
    [][/\ \A t \in DOMAIN transactions :
            /\ t \in DOMAIN transactions'
            /\ transactions[t].status = "SETTLED" => transactions'[t] = transactions[t]
            /\ transactions'[t].status # transactions[t].status
               => (transactions[t].status = "AUTHORIZED" /\ transactions'[t].status = "SETTLED")
       /\ \A t \in DOMAIN transactions' \ DOMAIN transactions :
            transactions'[t].status = "AUTHORIZED"]_vars

\* C14: every SETTLED transaction has 0 <= settled_amount <= authorized_amount;
\* on an AUTHORIZED transaction a Settle above authorized_amount is answered
\* SettledAmountExceedsAuthorized and a Settle with a negative amount is not applied.
C14_SettledAmountInRange ==
    \A t \in DOMAIN transactions :
        /\ transactions[t].status = "SETTLED"
           => /\ 0 <= Val(transactions[t].settled_amount)
              /\ Val(transactions[t].settled_amount) <= transactions[t].authorized_amount
        /\ transactions[t].status = "AUTHORIZED"
           => /\ SettleResult(t, transactions[t].authorized_amount + 1)
                    = "SettledAmountExceedsAuthorized"
              /\ \A a \in Amounts : a < 0 => SettleResult(t, a) # "settle"

\* C15: every Loan has 0 <= outstanding_balance <= principal_amount.
C15_BalanceWithinPrincipal ==
    \A l \in DOMAIN loans :
        /\ 0 <= loans[l].outstanding_balance
        /\ loans[l].outstanding_balance <= loans[l].principal_amount

\* A PAID_OFF loan has nothing outstanding.
PaidOffMeansZero ==
    \A l \in DOMAIN loans :
        loans[l].status = "PAID_OFF" => loans[l].outstanding_balance = 0

\* C16: status PAID_OFF implies outstanding_balance = 0 in every state, and a
\* repayment that brings the balance to 0 leaves the loan PAID_OFF with
\* paid_off_at set.
C16_PaidOffOnlyAtZero ==
    [][/\ PaidOffMeansZero
       /\ PaidOffMeansZero'
       /\ \A p \in Workers :
            (/\ session[p].pc = "repay"
             /\ session'[p].pc # "repay"
             /\ loans'[session[p].loan].outstanding_balance = 0)
            => /\ loans'[session[p].loan].status = "PAID_OFF"
               /\ loans'[session[p].loan].paid_off_at # None]_vars

\* Sum of the amounts of the first n LoanRepayment rows that belong to loan l.
RECURSIVE SumRepaid(_, _)
SumRepaid(l, n) ==
    IF n = 0 THEN 0
    ELSE (IF repayments[n].loan_id = l THEN repayments[n].amount ELSE 0) + SumRepaid(l, n - 1)

\* C17: for every Loan the amounts of its LoanRepayment rows sum to at most its
\* principal_amount, and LoanRepayment rows are never changed or removed.
C17_RepaymentsWithinPrincipal ==
    [][/\ \A l \in DOMAIN loans' :
            SumRepaid(l, Len(repayments))' <= loans'[l].principal_amount
       /\ Len(repayments') >= Len(repayments)
       /\ \A r \in DOMAIN repayments : repayments'[r] = repayments[r]]_vars

\* Every PENDING Payment row belongs to an initiate_payment call still in progress.
NoPaymentLeftPending ==
    \A n \in DOMAIN payments :
        payments[n].status = "PENDING" =>
            \E p \in Workers :
                session[p].pc \in {"payment", "pay_repay"} /\ session[p].payment = n

\* C18: a failed engine operation leaves every record as it was before the
\* call: an authorization whose commit is refused writes nothing, and an
\* initiate_payment whose repayment is refused leaves no Payment row behind.
C18_FailedCallChangesNothing ==
    [][/\ NoPaymentLeftPending
       /\ NoPaymentLeftPending'
       /\ \A p \in Workers :
            (/\ session[p].pc \in {"scan", "initiate"}
             /\ session'[p].pc = "idle"
             /\ Len(transactions') = Len(transactions))
            => UNCHANGED db]_vars

\* C19: no error of an engine operation is swallowed: when the roll-up fails
\* after the settlement was committed, the settle endpoint answers with an
\* error and not with success.
C19_RollupErrorReported ==
    [][\A p \in Workers :
        (/\ session[p].pc \in {"rollup_begin", "rollup"}
         /\ session'[p].pc = "idle"
         /\ loans' = loans)
        => SettleEndpointAnswer("settle", TRUE) # "success"]_vars

\* C20: validating a scanned token through /merchants/scan-qr is read-only: the
\* scan leaves the credit line, the token and every Transaction as they were, so
\* the token can be scanned again with the same result.
C20_ScanIsReadOnly ==
    [][\A p \in Workers : \A q \in 1..MaxQr : \A k \in Keys :
        (/\ session[p].pc = "scan"
         /\ session[p].qr = q
         /\ session[p].key = k
         /\ session'[p].pc = "idle")
        => /\ UNCHANGED <<credit_lines, qr_codes, transactions>>
           /\ \A k2 \in Keys : (ScanResult(q, k2) # "InvalidOrExpiredToken")']_vars

\* C21: loan roll-up succeeds for every SETTLED transaction, also one settled
\* for amount 0, and is refused with TransactionNotSettled for a transaction
\* that is still AUTHORIZED.
C21_RollupOfEverySettled ==
    \A t \in DOMAIN transactions :
        LET c == CreditLineOf(transactions[t].debtor_driver_id,
                              transactions[t].funding_source_id)
        IN IF transactions[t].status = "SETTLED"
           THEN RollupResult(t, c) = "rollup"
           ELSE RollupResult(t, c) = "TransactionNotSettled"

\* C22: the token a transaction was created from is marked used by settlement
\* and not by scanning: while the transaction is AUTHORIZED the token has
\* is_used false, and once it is SETTLED the token has is_used true and used_at set.
C22_TokenUsedAtSettle ==
    \A t \in DOMAIN transactions :
        origin[t] # 0 =>
            IF transactions[t].status = "SETTLED"
            THEN qr_codes[origin[t]].is_used /\ qr_codes[origin[t]].used_at # None
            ELSE ~qr_codes[origin[t]].is_used

\* C23: a roll-up of a transaction settled for S adds exactly S to the
\* principal_amount and the outstanding_balance of the ACTIVE loan of the
\* transaction's credit line and creates no Loan; when there is no ACTIVE loan
\* it creates exactly one Loan with principal_amount = outstanding_balance = S,
\* interest_rate 0 and status ACTIVE.
C23_RollupExtendsOrCreates ==
    [][\A p \in Workers :
        (session[p].pc = "rollup" /\ session'[p].pc = "idle" /\ loans' # loans) =>
            LET t == session[p].txn
                S == session[p].settled_amount
                l == ActiveLoanOf(CreditLineOf(transactions[t].debtor_driver_id,
                                               transactions[t].funding_source_id))
            IN IF l # 0
               THEN /\ Len(loans') = Len(loans)
                    /\ loans'[l].principal_amount = loans[l].principal_amount + S
                    /\ loans'[l].outstanding_balance = loans[l].outstanding_balance + S
                    /\ \A m \in DOMAIN loans \ {l} : loans'[m] = loans[m]
               ELSE /\ Len(loans') = Len(loans) + 1
                    /\ loans'[Len(loans')].principal_amount = S
                    /\ loans'[Len(loans')].outstanding_balance = S
                    /\ loans'[Len(loans')].interest_rate = 0
                    /\ loans'[Len(loans')].status = "ACTIVE"
                    /\ \A m \in DOMAIN loans : loans'[m] = loans[m]]_vars

\* Sum of principal_amount over the first n Loan rows of credit line c.
RECURSIVE SumPrincipal(_, _)
SumPrincipal(c, n) ==
    IF n = 0 THEN 0
    ELSE (IF loans[n].credit_line_id = c THEN loans[n].principal_amount ELSE 0)
         + SumPrincipal(c, n - 1)

\* Sum of settled_amount over the first n Transaction rows that are SETTLED.
RECURSIVE SumSettled(_)
SumSettled(n) ==
    IF n = 0 THEN 0
    ELSE (IF transactions[n].status = "SETTLED" THEN Val(transactions[n].settled_amount) ELSE 0)
         + SumSettled(n - 1)

\* C24: whatever the settle endpoints are called with and however the calls
\* interleave, each settled transaction is rolled up at most once: the loan
\* principal of the (bank, driver) pair never exceeds the sum of the
\* settled_amounts of the pair's SETTLED transactions (stated for settled
\* amounts that are not negative).
C24_RollupAtMostOnce ==
    (\A t \in DOMAIN transactions :
        transactions[t].settled_amount # None => Val(transactions[t].settled_amount) >= 0)
    => SumPrincipal(TheLine, Len(loans)) <= SumSettled(Len(transactions))

\* C25: the version of a credit line never decreases, and every step that
\* changes its utilized_amount (hold, release at settlement, release at
\* repayment) increases it.
C25_VersionCountsChanges ==
    [][\A c \in DOMAIN credit_lines :
        /\ credit_lines'[c].version >= credit_lines[c].version
        /\ credit_lines'[c].utilized_amount # credit_lines[c].utilized_amount
           => credit_lines'[c].version > credit_lines[c].version]_vars

\* C26: get_available_credit returns max(0, credit_limit - utilized_amount) of
\* the credit line the driver has at the preferred bank, and the credit check
\* at Issue accepts an amount A exactly when utilized_amount + A <= credit_limit
\* on that line, the one the hold is placed on.
C26_CreditCheckOnHoldLine ==
    /\ get_available_credit(TheDriver)
         = Max(0, credit_lines[TheLine].credit_limit - credit_lines[TheLine].utilized_amount)
    /\ \A a \in HoldAmounts :
         check_credit_availability(TheDriver, a) <=> ~InsufficientCredit(TheLine, a)

\* At most one CreditLine row per (bank, driver) pair.
OneLinePerPair(lines) ==
    \A c, d \in DOMAIN lines :
        (lines[c].bank_id = lines[d].bank_id /\ lines[c].driver_id = lines[d].driver_id)
        => c = d

RECURSIVE SumHeld(_, _)
SumHeld(c, n) ==
    IF n = 0 THEN 0
    ELSE (IF /\ transactions[n].status = "AUTHORIZED"
             /\ CreditLineOf(transactions[n].debtor_driver_id,
                             transactions[n].funding_source_id) = c
          THEN transactions[n].authorized_amount ELSE 0)
         + SumHeld(c, n - 1)

\* Sum of outstanding_balance over the first n Loan rows of credit line c.
RECURSIVE SumOutstanding(_, _)
SumOutstanding(c, n) ==
    IF n = 0 THEN 0
    ELSE (IF loans[n].credit_line_id = c THEN loans[n].outstanding_balance ELSE 0)
         + SumOutstanding(c, n - 1)

\* C28: credit is conserved: whenever no request is in progress, the
\* utilized_amount of each credit line is the sum of the authorized_amounts of
\* its AUTHORIZED transactions plus the sum of the outstanding_balances of its loans.
C28_CreditConserved ==
    (\A p \in Workers : session[p].pc = "idle") =>
        \A c \in DOMAIN credit_lines :
            credit_lines[c].utilized_amount
              = SumHeld(c, Len(transactions)) + SumOutstanding(c, Len(loans))

\* C29: at most one Loan with status ACTIVE exists per credit line, also when
\* two roll-ups for the same credit line run concurrently.
C29_OneActiveLoanPerLine ==
    \A l, m \in DOMAIN loans :
        (/\ loans[l].credit_line_id = loans[m].credit_line_id
         /\ loans[l].status = "ACTIVE"
         /\ loans[m].status = "ACTIVE")
        => l = m

\* C30: a Payment is applied as a LoanRepayment at most once: completing or
\* reconciling a Payment that is already COMPLETED adds no LoanRepayment and
\* changes neither the loan nor the credit line.
C30_PaymentAppliedOnce ==
    [][\A p \in Workers :
        (/\ session[p].pc = "pay_repay"
         /\ session'[p].pc = "idle"
         /\ payments[session[p].payment].status = "COMPLETED")
        => UNCHANGED <<repayments, loans, credit_lines>>]_vars
====
